---- MODULE Spec2Model ----
(***************************************************************************)
(* bunscript: two variants of the same command line tool.                  *)
(*                                                                         *)
(*   - the symlink variant (src/README.md, lines 21-312) links scripts     *)
(*     into a bin directory found by findLinkDirs;  specification SpecLink *)
(*   - the manifest variant (src/bunscript.ts) records scripts in the bin  *)
(*     map of package.json and runs `bun link`;      specification Spec    *)
(*                                                                         *)
(* A command of either tool is one action: the tool is a single process    *)
(* that runs one command to its end.                                       *)
(***************************************************************************)
EXTENDS Integers, Sequences, FiniteSets, TLC

VARIABLES
    env,      \* process environment of the symlink variant (see InitLink)
    fs,       \* entries of the bin directories: [dir, name] -> entry
    scripts,  \* file names present in the script directory
    bin,      \* the bin map of package.json (manifest variant)
    last      \* what the last command did (exit status, outcomes)

vars == <<env, fs, scripts, bin, last>>

-----------------------------------------------------------------------------
(* Bounds                                                                   *)

\* a command line name carries at most MaxTs trailing ".ts" suffixes
MaxTs == 1

-----------------------------------------------------------------------------
(* File names.  A name is a stem followed by ts copies of ".ts":            *)
(* "foo" = [stem |-> "foo", ts |-> 0], "foo.ts" = [stem |-> "foo", ts |-> 1]*)

Name(s, n) == [stem |-> s, ts |-> n]

EmptyName == Name("", 0)

\* name + ".ts"
AddTs(n) == Name(n.stem, n.ts + 1)

\* name.endsWith(".ts")
EndsWithTs(n) == n.ts > 0

\* path.basename(p, ".ts")
Basename(n) == IF n.ts > 0 THEN Name(n.stem, n.ts - 1) ELSE n

Stems == {"foo", "bar"}

\* names a user passes to the manifest variant
ArgNames ==
    {Name("foo", n) : n \in 0..MaxTs} \cup {Name("bar", 0), Name("bunscript", 0)}

\* file names the script directory can hold
ScriptFiles == {Name(s, n) : s \in Stems \cup {"bunscript"}, n \in 0..(MaxTs + 1)}

\* names passed to the symlink variant, and the entry names of a bin directory
LinkArgNames == {Name(s, 0) : s \in Stems}
BinNames == {Name(s, 0) : s \in Stems}

\* all orders in which readdir can return a set of names
RECURSIVE Orders(_)
Orders(S) ==
    IF S = {} THEN {<<>>}
    ELSE UNION {{<<x>> \o o : o \in Orders(S \ {x})} : x \in S}

-----------------------------------------------------------------------------
(* Paths and directory entries of the symlink variant                       *)

\* const SCRIPT_DIR = path.join(__dirname, "scripts")
SCRIPT_DIR == "/repo/scripts"
\* what realpath() gives for the script directory when the repository is
\* reached through a symbolic link
RealDir == "/mnt/repo/scripts"
\* a directory that has nothing to do with the tool
OtherDir == "/opt/tools"

OverrideDir == "/opt/bin"
RelativeDir == "bin"
HomeDir == "/home/u"
HomeBin == "/home/u/bin"
HomeLocalBin == "/home/u/.local/bin"
Unset == ""

\* directories whose entries are modelled: the documented candidates and the
\* two relative paths "0" and "1" that findLinkDirs tests
Dirs == {OverrideDir, HomeBin, HomeLocalBin, "0", "1"}

Cells == Dirs \X BinNames

NoDest == [dir |-> "", file |-> EmptyName]
Dest(d, f) == [dir |-> d, file |-> f]

None == [kind |-> "none", dest |-> NoDest]
File == [kind |-> "file", dest |-> NoDest]
Dir == [kind |-> "dir", dest |-> NoDest]
Link(d, f) == [kind |-> "link", dest |-> Dest(d, f)]

\* path.isAbsolute
IsAbsolute(d) == d \in {OverrideDir, HomeBin, HomeLocalBin}

\* path.join(home, "bin"), path.join(home, ".local", "bin")
JoinHome(home) == IF home = HomeDir THEN <<HomeBin, HomeLocalBin>> ELSE <<>>

\* `for (const d in array)`: the loop variable takes the array's keys
ForIn(arr) == [i \in 1..Len(arr) |-> ToString(i - 1)]

\* fs.realpath of a file of the script directory
Realpath(e, f) == Dest(e.realScriptDir, f)

\* does the destination of a link exist (files outside the script directory
\* are taken to exist)
DestExists(e, scr, dest) ==
    IF dest.dir \in {SCRIPT_DIR, e.realScriptDir} THEN dest.file \in scr
    ELSE TRUE

\* stat(2) follows symbolic links: the kind of what the path resolves to
Stat(e, scr, ent) ==
    CASE ent.kind = "none" -> "ENOENT"
      [] ent.kind = "file" -> "file"
      [] ent.kind = "dir" -> "dir"
      [] ent.kind = "link" -> IF DestExists(e, scr, ent.dest) THEN "file" ELSE "ENOENT"

\* Bun.file(p).exists(): false for directories
BunFileExists(e, scr, ent) == Stat(e, scr, ent) = "file"

\* fileIsLink: `test -h` on win32; elsewhere Bun.file(p).stat().isSymbolicLink(),
\* where stat() rejects for a path that does not resolve and reports the
\* file a link resolves to otherwise
fileIsLink(e, scr, ent) ==
    IF e.platform = "win32"
    THEN (IF ent.kind = "link" THEN "true" ELSE "false")
    ELSE (IF Stat(e, scr, ent) = "ENOENT" THEN "throw" ELSE "false")

\* linkState(script, target)
linkStateNoExistsCheck(e, scr, script, ent) ==
    LET isl == fileIsLink(e, scr, ent) IN
    CASE isl = "throw" -> "throw"
      [] isl = "true" -> IF ent.dest = script THEN "valid" ELSE "other"
      [] OTHER -> "none"

linkState(e, scr, script, ent) ==
    LET isl == fileIsLink(e, scr, ent) IN
    CASE isl = "throw" -> "throw"
      [] isl = "true" -> IF ent.dest = script THEN "valid" ELSE "other"
      [] OTHER -> IF BunFileExists(e, scr, ent) THEN "other" ELSE "none"

\* fs.symlink(scriptPath, target): the entries afterwards, or "EEXIST"
Symlink(f, cell, script) ==
    IF f[cell].kind # "none" THEN [err |-> TRUE, fs |-> f]
    ELSE [err |-> FALSE, fs |-> [f EXCEPT ![cell] = Link(script.dir, script.file)]]

\* linkScript(linkDir, scriptPath); chmodOk: the script file is there when
\* `chmod +x target` runs
linkScript(e, scr, f, linkDir, script, chmodOk) ==
    LET cell == <<linkDir, Basename(script.file)>>
        state == linkState(e, scr, script, f[cell])
    IN  CASE state = "throw" -> [fs |-> f, res |-> "throw"]
          [] state = "other" -> [fs |-> f, res |-> "rejected"]
          [] state = "valid" -> [fs |-> f, res |-> "skipped"]
          [] OTHER ->
               LET sl == Symlink(f, cell, script) IN
               IF sl.err THEN [fs |-> f, res |-> "throw"]
               ELSE IF ~chmodOk THEN [fs |-> sl.fs, res |-> "throw"]
               ELSE [fs |-> sl.fs, res |-> "created"]

\* exists(d) && stat(d).isDirectory()
IsDirectory(e, d) == d \in e.onDisk

\* findLinkDirs(): the qualifying directories; <<>> stands for the raised
\* error "could not find a directory suitable for script links"
findLinkDirs(e) ==
    LET fromVar ==
            IF e.binDirEnv # Unset /\ IsAbsolute(e.binDirEnv) /\ IsDirectory(e, e.binDirEnv)
            THEN <<e.binDirEnv>> ELSE <<>>
        cands == IF e.home # Unset THEN ForIn(JoinHome(e.home)) ELSE <<>>
        fromHome == SelectSeq(cands, LAMBDA d : IsDirectory(e, d))
    IN  fromVar \o fromHome

-----------------------------------------------------------------------------
(* What a command reports                                                   *)

Outcomes == {"notrun", "created", "skipped", "rejected", "throw"}

NoResults == [f \in ScriptFiles |-> "notrun"]

\* exit: the process exit status; raised: an error reached the top-level
\* catch, which prints it
Report(cmd, arg, exit, raised, msg, results, removed, dirs) ==
    [cmd |-> cmd, arg |-> arg, exit |-> exit, raised |-> raised, msg |-> msg,
     results |-> results, removed |-> removed, dirs |-> dirs,
     keys |-> {}, steps |-> <<>>, failed |-> "", pending |-> {}]

\* the same for the manifest variant.  keys: the bin keys the command logged
\* as linked or unlinked; steps: the writes and subprocesses it started
MReport(cmd, arg, exit, raised, msg, keys, steps) ==
    [cmd |-> cmd, arg |-> arg, exit |-> exit, raised |-> raised, msg |-> msg,
     results |-> NoResults, removed |-> {}, dirs |-> <<>>,
     keys |-> keys, steps |-> steps, failed |-> "", pending |-> {}]

\* failed: the subprocess of the command that exited with a non-zero status;
\* pending: the writes issued without await that had not completed when the
\* step after them started
WithRun(report, failed, pending) ==
    [report EXCEPT !.failed = failed, !.pending = pending]

\* exit(2) after usage(), exit(1) after a message
UsageExit(cmd, arg) == Report(cmd, arg, 2, FALSE, "usage", NoResults, {}, <<>>)
Fail(cmd, arg, msg) == Report(cmd, arg, 1, FALSE, msg, NoResults, {}, <<>>)

\* the top-level catch: prints the error; the script then runs to its end
Catch(cmd, arg, msg, results, removed, dirs) ==
    Report(cmd, arg, 0, TRUE, msg, results, removed, dirs)

NoDirsMsg == "could not find a directory suitable for script links"

-----------------------------------------------------------------------------
(* Commands of the symlink variant                                          *)

\* the loop of linkscripts over readdir(SCRIPT_DIR), from position i of order
RECURSIVE LinkAll(_, _, _, _, _, _, _, _)
LinkAll(e, scr, f, dir, order, i, results, code) ==
    IF i > Len(order)
    THEN [fs |-> f, results |-> results, exit |-> code, raised |-> FALSE]
    ELSE LET script == order[i] IN
         IF ~EndsWithTs(script)
         THEN LinkAll(e, scr, f, dir, order, i + 1, results, code)
         ELSE LET r == linkScript(e, scr, f, dir, Realpath(e, script), TRUE) IN
              IF r.res = "throw"
              THEN [fs |-> r.fs, results |-> [results EXCEPT ![script] = "throw"],
                    exit |-> 0, raised |-> TRUE]
              ELSE LinkAll(e, scr, r.fs, dir, order, i + 1,
                           [results EXCEPT ![script] = r.res],
                           IF r.res = "rejected" THEN 1 ELSE code)

\* linkscripts()
linkscripts(order) ==
    LET dirs == findLinkDirs(env) IN
    IF dirs = <<>>
    THEN /\ last' = Catch("link", EmptyName, NoDirsMsg, NoResults, {}, dirs)
         /\ UNCHANGED <<env, fs, scripts, bin>>
    ELSE LET r == LinkAll(env, scripts, fs, dirs[1], order, 1, NoResults, 0) IN
         /\ fs' = r.fs
         /\ last' = IF r.raised
                    THEN Catch("link", EmptyName, "io", r.results, {}, dirs)
                    ELSE Report("link", EmptyName, r.exit, FALSE, "", r.results, {}, dirs)
         /\ UNCHANGED <<env, scripts, bin>>

CmdLink ==
    \E order \in Orders(scripts) : linkscripts(order)

\* the test of unlinkscripts on the destination of a link: TRUE when the
\* link is to be removed
OwnedNoDirCheck(dest, limitToScript) ==
    ~(limitToScript # EmptyName /\ Basename(dest.file) # limitToScript)

Owned(dest, limitToScript) ==
    /\ dest.dir = SCRIPT_DIR
    /\ ~(limitToScript # EmptyName /\ Basename(dest.file) # limitToScript)

\* the loops of unlinkscripts over the entries cells[i..] of the link dirs
RECURSIVE UnlinkAll(_, _, _, _, _, _, _)
UnlinkAll(e, scr, f, cells, i, limitToScript, removed) ==
    IF i > Len(cells)
    THEN [fs |-> f, removed |-> removed, raised |-> FALSE]
    ELSE LET cell == cells[i]
             isl == fileIsLink(e, scr, f[cell])
         IN  CASE isl = "throw" -> [fs |-> f, removed |-> removed, raised |-> TRUE]
               [] isl = "true" /\ Owned(f[cell].dest, limitToScript) ->
                    UnlinkAll(e, scr, [f EXCEPT ![cell] = None], cells, i + 1,
                              limitToScript, removed \cup {cell})
               [] OTHER -> UnlinkAll(e, scr, f, cells, i + 1, limitToScript, removed)

\* the names in use in some bin directory
PresentNames(f) == {n \in BinNames : \E d \in Dirs : f[<<d, n>>].kind # "none"}

\* readdir(dir) for each directory of dirs in turn, names in the order `order`
RECURSIVE Listing(_, _, _)
Listing(f, dirs, order) ==
    IF dirs = <<>> THEN <<>>
    ELSE LET here == SelectSeq(order, LAMBDA n : f[<<Head(dirs), n>>].kind # "none")
         IN  [i \in 1..Len(here) |-> <<Head(dirs), here[i]>>] \o Listing(f, Tail(dirs), order)

\* unlinkscripts(limitToScript): [fs, removed, raised, dirs]
unlinkscripts(e, scr, f, limitToScript, order) ==
    LET dirs == findLinkDirs(e) IN
    IF dirs = <<>>
    THEN [fs |-> f, removed |-> {}, raised |-> TRUE, msg |-> NoDirsMsg, dirs |-> dirs]
    ELSE LET r == UnlinkAll(e, scr, f, Listing(f, dirs, order), 1, limitToScript, {})
         IN  [fs |-> r.fs, removed |-> r.removed, raised |-> r.raised, msg |-> "io",
              dirs |-> dirs]

CmdUnlink ==
    \E arg \in LinkArgNames \cup {EmptyName}, order \in Orders(PresentNames(fs)) :
        LET r == unlinkscripts(env, scripts, fs, arg, order) IN
        /\ fs' = r.fs
        /\ last' = IF r.raised
                   THEN Catch("unlink", arg, r.msg, NoResults, r.removed, r.dirs)
                   ELSE Report("unlink", arg, 0, FALSE, "", NoResults, r.removed, r.dirs)
        /\ UNCHANGED <<env, scripts, bin>>

\* removescript(script)
CmdRm ==
    \E arg \in LinkArgNames \cup {EmptyName}, order \in Orders(PresentNames(fs)) :
        IF arg = EmptyName
        THEN last' = UsageExit("rm", arg) /\ UNCHANGED <<env, fs, scripts, bin>>
        ELSE IF AddTs(arg) \notin scripts
        THEN /\ last' = Fail("rm", arg, "couldn't find script")
             /\ UNCHANGED <<env, fs, scripts, bin>>
        ELSE LET r == unlinkscripts(env, scripts, fs, arg, order) IN
             /\ fs' = r.fs
             /\ IF r.raised
                THEN /\ last' = Catch("rm", arg, r.msg, NoResults, r.removed, r.dirs)
                     /\ UNCHANGED scripts
                ELSE /\ last' = Report("rm", arg, 0, FALSE, "", NoResults, r.removed, r.dirs)
                     /\ scripts' = scripts \ {AddTs(arg)}
             /\ UNCHANGED <<env, bin>>

\* createscript(args).  npos: number of positionals; unknownOpt: an option
\* parseArgs does not know; editorOk: exit status of $EDITOR; landed: the
\* file written by the unawaited Bun.write is there when chmod runs
createscript(npos, arg, edit, noLink, unknownOpt, editorOk, landed) ==
    LET file == AddTs(arg)
        dirs == findLinkDirs(env)
        script == Dest(SCRIPT_DIR, file)
        r == linkScript(env, IF landed THEN scripts \cup {file} ELSE scripts,
                        fs, dirs[1], script, landed)
        res == [NoResults EXCEPT ![file] = r.res]
    IN
    IF unknownOpt
    THEN /\ last' = Catch("new", arg, "parseArgs", NoResults, {}, <<>>)
         /\ UNCHANGED <<env, fs, scripts, bin>>
    ELSE IF npos # 1 \/ arg = EmptyName
    THEN /\ last' = UsageExit("new", arg)
         /\ UNCHANGED <<env, fs, scripts, bin>>
    ELSE IF file \in scripts
    THEN /\ last' = Fail("new", arg, "already exists")
         /\ UNCHANGED <<env, fs, scripts, bin>>
    ELSE /\ scripts' = scripts \cup {file}
         /\ UNCHANGED <<env, bin>>
         /\ IF edit /\ ~editorOk
            THEN /\ last' = Catch("new", arg, "editor", NoResults, {}, <<>>)
                 /\ UNCHANGED fs
            ELSE IF noLink
            THEN /\ last' = Report("new", arg, 0, FALSE, "", NoResults, {}, <<>>)
                 /\ UNCHANGED fs
            ELSE IF dirs = <<>>
            THEN /\ last' = Catch("new", arg, NoDirsMsg, NoResults, {}, dirs)
                 /\ UNCHANGED fs
            ELSE /\ fs' = r.fs
                 /\ last' = WithRun(IF r.res = "throw"
                                     THEN Catch("new", arg, "io", res, {}, dirs)
                                     ELSE Report("new", arg, 0, FALSE, "", res, {}, dirs),
                                     "", IF landed THEN {} ELSE {"write script"})

CmdNew ==
    \/ \E arg \in LinkArgNames : createscript(1, arg, FALSE, FALSE, TRUE, TRUE, TRUE)
    \/ \E npos \in {0, 2} : createscript(npos, EmptyName, FALSE, FALSE, FALSE, TRUE, TRUE)
    \/ createscript(1, EmptyName, FALSE, FALSE, FALSE, TRUE, TRUE)
    \/ \E arg \in LinkArgNames, editorOk \in BOOLEAN :
           createscript(1, arg, TRUE, TRUE, FALSE, editorOk, TRUE)
    \/ \E arg \in LinkArgNames : createscript(1, arg, FALSE, TRUE, FALSE, TRUE, TRUE)
    \/ \E arg \in LinkArgNames, edit \in BOOLEAN, landed \in BOOLEAN :
           createscript(1, arg, edit, FALSE, FALSE, TRUE, landed)

\* `--help`, `-h`
CmdHelp ==
    /\ last' = Report("help", EmptyName, 0, FALSE, "usage", NoResults, {}, <<>>)
    /\ UNCHANGED <<env, fs, scripts, bin>>

\* no command, or the default branch of the switch
CmdUnknown ==
    /\ last' = UsageExit("unknown", EmptyName)
    /\ UNCHANGED <<env, fs, scripts, bin>>

-----------------------------------------------------------------------------
(* The symlink variant as a state machine                                   *)

Env(pf, var, home, onDisk, real) ==
    [platform |-> pf, binDirEnv |-> var, home |-> home, onDisk |-> onDisk,
     realScriptDir |-> real]

\* the environments a command is run in
Environments ==
    {Env(pf, Unset, HomeDir, {HomeBin, HomeLocalBin}, SCRIPT_DIR) : pf \in {"posix", "win32"}}
    \cup {Env(pf, OverrideDir, HomeDir, {OverrideDir, HomeBin}, SCRIPT_DIR) : pf \in {"posix", "win32"}}
    \cup {Env(pf, OverrideDir, HomeDir, {OverrideDir, "0"}, SCRIPT_DIR) : pf \in {"posix", "win32"}}
    \cup {Env(pf, RelativeDir, HomeDir, {"1"}, SCRIPT_DIR) : pf \in {"posix", "win32"}}
    \cup {Env(pf, Unset, Unset, {OverrideDir}, SCRIPT_DIR) : pf \in {"posix", "win32"}}
    \cup {Env(pf, OverrideDir, HomeDir, {OverrideDir}, RealDir) : pf \in {"posix", "win32"}}

\* what a user's bin directory can hold under the name n before the tool
\* runs: a file, a directory, a link to the script of that name, a link to
\* a file of that name somewhere else
EntryKinds == {"file", "dir", "owned", "foreign"}

InitEntry(kind, n) ==
    CASE kind = "file" -> File
      [] kind = "dir" -> Dir
      [] kind = "owned" -> Link(SCRIPT_DIR, AddTs(n))
      [] kind = "foreign" -> Link(OtherDir, AddTs(n))

InitNames == {Name(s, 0) : s \in Stems}

InitFs(e) ==
    {[c \in Cells |-> IF c[1] = d /\ k[c[2]] # "none" THEN InitEntry(k[c[2]], c[2]) ELSE None] :
        d \in e.onDisk, k \in [InitNames -> EntryKinds \cup {"none"}]}

\* the script directory holds a file that is not a script
InitScripts ==
    {{Name("foo", 0)}, {Name("foo", 0), Name("foo", 1), Name("bar", 1)}}

InitLast == Report("init", EmptyName, 0, FALSE, "", NoResults, {}, <<>>)

InitLink ==
    /\ env \in Environments
    /\ fs \in InitFs(env)
    /\ scripts \in InitScripts
    /\ bin = << >>
    /\ last = InitLast

NextLink ==
    \/ CmdNew
    \/ CmdRm
    \/ CmdLink
    \/ CmdUnlink
    \/ CmdHelp
    \/ CmdUnknown

SpecLink == InitLink /\ [][NextLink]_vars

-----------------------------------------------------------------------------
(* Commands of the manifest variant (src/bunscript.ts)                      *)

\* const self = "bunscript"
SelfName == Name("bunscript", 0)
\* `./${self}.ts`
SelfPath == [form |-> "self", file |-> Name("bunscript", 1)]

\* path.join(SCRIPT_DIR, scriptName + ".ts") with SCRIPT_DIR = "./scripts"
RelPath(name) == [form |-> "rel", file |-> AddTs(name)]

\* absoluteScriptPath(script) for a non-empty script
absoluteScriptPath(script) ==
    [form |-> "abs", file |-> IF EndsWithTs(script) THEN script ELSE AddTs(script)]

\* the loop of linkScripts over scriptPaths[i..]: the bin map and the keys set
RECURSIVE LinkLoop(_, _, _, _)
LinkLoop(b, paths, i, keys) ==
    IF i > Len(paths) THEN [bin |-> b, keys |-> keys]
    ELSE LET scriptName == Basename(paths[i].file) IN
         IF scriptName = SelfName
         THEN LinkLoop(b, paths, i + 1, keys)
         ELSE LinkLoop([k \in DOMAIN b \cup {scriptName} |->
                           IF k = scriptName THEN paths[i] ELSE b[k]],
                       paths, i + 1, keys \cup {scriptName})

\* linkScripts(scriptPaths); linkOk: `bun link -f` exits with 0
linkScripts(b, paths, linkOk) ==
    LET r == LinkLoop(b, paths, 1, {})
        pinned == [k \in DOMAIN r.bin \cup {SelfName} |->
                      IF k = SelfName THEN SelfPath ELSE r.bin[k]]
    IN  [bin |-> pinned, keys |-> r.keys, raised |-> ~linkOk,
         steps |-> <<"write", "bun link -f">>,
         failed |-> IF linkOk THEN "" ELSE "bun link -f"]

\* the keys the loop of unlinkscripts deletes
UnlinkedNoSelfCheck(b, limitToScript) ==
    {k \in DOMAIN b : ~(limitToScript # EmptyName /\ k # limitToScript)}

Unlinked(b, limitToScript) ==
    {k \in DOMAIN b :
        /\ k # SelfName
        /\ ~(limitToScript # EmptyName /\ k # limitToScript)}

\* unlinkscripts(limitToScript); unlinkOk, linkOk: `bun unlink`, `bun link`
\* exit with 0
munlinkscriptsUnchecked(b, limitToScript, unlinkOk, linkOk) ==
    LET gone == Unlinked(b, limitToScript)
        kept == [k \in DOMAIN b \ gone |-> b[k]]
    IN  [bin |-> kept, keys |-> gone, raised |-> ~linkOk,
         steps |-> <<"bun unlink", "write", "bun link">>,
         failed |-> IF ~unlinkOk THEN "bun unlink" ELSE IF linkOk THEN "" ELSE "bun link"]

munlinkscripts(b, limitToScript, unlinkOk, linkOk) ==
    LET gone == Unlinked(b, limitToScript)
        kept == [k \in DOMAIN b \ gone |-> b[k]]
    IN  IF ~unlinkOk
        THEN [bin |-> b, keys |-> gone, raised |-> TRUE, steps |-> <<"bun unlink">>,
              failed |-> "bun unlink"]
        ELSE [bin |-> kept, keys |-> gone, raised |-> ~linkOk,
              steps |-> <<"bun unlink", "write", "bun link">>,
              failed |-> IF linkOk THEN "" ELSE "bun link"]

\* createscript(args).  inflight: the writes issued without await that have
\* not completed when the step after them starts
mcreatescript(npos, arg, edit, noLink, unknownOpt, editorOk, linkOk, inflight) ==
    LET file == AddTs(arg)
        r == linkScripts(bin, <<RelPath(arg)>>, linkOk)
    IN
    IF unknownOpt
    THEN /\ last' = MReport("new", arg, 0, TRUE, "parseArgs", {}, <<>>)
         /\ UNCHANGED <<env, fs, scripts, bin>>
    ELSE IF npos # 1 \/ arg = EmptyName
    THEN /\ last' = MReport("new", arg, 2, FALSE, "usage", {}, <<>>)
         /\ UNCHANGED <<env, fs, scripts, bin>>
    ELSE IF arg = SelfName
    THEN /\ last' = MReport("new", arg, 1, FALSE, "collide", {}, <<>>)
         /\ UNCHANGED <<env, fs, scripts, bin>>
    ELSE IF file \in scripts
    THEN /\ last' = MReport("new", arg, 1, FALSE, "already exists", {}, <<>>)
         /\ UNCHANGED <<env, fs, scripts, bin>>
    ELSE /\ scripts' = scripts \cup {file}
         /\ UNCHANGED <<env, fs>>
         /\ IF edit /\ ~editorOk
            THEN /\ last' = WithRun(MReport("new", arg, 0, TRUE, "editor", {},
                                            <<"write script", "editor">>),
                                    "editor", inflight \cap {"write script"})
                 /\ UNCHANGED bin
            ELSE IF noLink
            THEN /\ last' = WithRun(MReport("new", arg, 0, FALSE, "", {},
                                            <<"write script">>
                                                \o (IF edit THEN <<"editor">> ELSE <<>>)),
                                    "", IF edit THEN inflight \cap {"write script"} ELSE {})
                 /\ UNCHANGED bin
            ELSE /\ bin' = r.bin
                 /\ last' = WithRun(MReport("new", arg, 0, r.raised,
                                            IF r.raised THEN "failed to link scripts" ELSE "",
                                            r.keys,
                                            <<"write script">>
                                                \o (IF edit THEN <<"editor">> ELSE <<>>)
                                                \o r.steps),
                                    r.failed, inflight)

\* createscript refuses a colliding or existing name before it looks at
\* --edit and --no-link, so the outcomes of the editor, of bun link and of
\* the writes are drawn for the names it accepts
MNew ==
    LET accepted == {a \in ArgNames : a # SelfName /\ AddTs(a) \notin scripts} IN
    \/ \E arg \in ArgNames : mcreatescript(1, arg, FALSE, FALSE, TRUE, TRUE, TRUE, {})
    \/ \E npos \in {0, 2} : mcreatescript(npos, EmptyName, FALSE, FALSE, FALSE, TRUE, TRUE, {})
    \/ mcreatescript(1, EmptyName, FALSE, FALSE, FALSE, TRUE, TRUE, {})
    \/ \E arg \in accepted, editorOk \in BOOLEAN, inflight \in SUBSET {"write script"} :
           mcreatescript(1, arg, TRUE, TRUE, FALSE, editorOk, TRUE, inflight)
    \/ \E arg \in ArgNames : mcreatescript(1, arg, FALSE, TRUE, FALSE, TRUE, TRUE, {})
    \/ \E arg \in ArgNames \ accepted :
           mcreatescript(1, arg, FALSE, FALSE, FALSE, TRUE, TRUE, {})
    \/ \E arg \in accepted, edit \in BOOLEAN, linkOk \in BOOLEAN,
          inflight \in SUBSET {"write script", "write"} :
           mcreatescript(1, arg, edit, FALSE, FALSE, TRUE, linkOk, inflight)

\* removescript(script)
MRm ==
    \E arg \in ArgNames \cup {EmptyName}, unlinkOk \in BOOLEAN, linkOk \in BOOLEAN,
       inflight \in SUBSET {"write"} :
        \* the write and bun link are reached only after bun unlink exited with 0
        /\ unlinkOk \/ (linkOk /\ inflight = {})
        /\ LET file == absoluteScriptPath(arg).file
               r == munlinkscripts(bin, arg, unlinkOk, linkOk)
               pending == IF unlinkOk THEN inflight ELSE {}
           IN
           IF arg = EmptyName
           THEN /\ last' = MReport("rm", arg, 2, FALSE, "usage", {}, <<>>)
                /\ UNCHANGED <<env, fs, scripts, bin>>
           ELSE IF file \notin scripts
           THEN /\ last' = MReport("rm", arg, 1, FALSE, "couldn't find script", {}, <<>>)
                /\ UNCHANGED <<env, fs, scripts, bin>>
           ELSE /\ bin' = r.bin
                /\ IF r.raised
                   THEN /\ last' = WithRun(MReport("rm", arg, 0, TRUE,
                                                   "failed to unlink scripts", r.keys, r.steps),
                                           r.failed, pending)
                        /\ UNCHANGED scripts
                   ELSE /\ last' = WithRun(MReport("rm", arg, 0, FALSE, "", r.keys,
                                                   r.steps \o <<"delete script">>),
                                           r.failed, pending)
                        /\ scripts' = scripts \ {file}
                /\ UNCHANGED <<env, fs>>

\* linkscripts()
MLink ==
    \E r \in {linkScripts(bin, [i \in 1..Len(order) |-> absoluteScriptPath(order[i])],
                          linkOk) : order \in Orders({f \in scripts : EndsWithTs(f)}),
                                    linkOk \in BOOLEAN} :
        \E inflight \in SUBSET {"write"} :
            /\ bin' = r.bin
            /\ last' = WithRun(MReport("link", EmptyName, 0, r.raised,
                                       IF r.raised THEN "failed to link scripts" ELSE "",
                                       r.keys, r.steps),
                               r.failed, inflight)
            /\ UNCHANGED <<env, fs, scripts>>

\* unlinkscripts(Bun.argv[3] ?? "")
MUnlink ==
    \E arg \in ArgNames \cup {EmptyName}, unlinkOk \in BOOLEAN, linkOk \in BOOLEAN,
       inflight \in SUBSET {"write"} :
        LET r == munlinkscripts(bin, arg, unlinkOk, linkOk) IN
        \* the write and bun link are reached only after bun unlink exited with 0
        /\ unlinkOk \/ (linkOk /\ inflight = {})
        /\ bin' = r.bin
        /\ last' = WithRun(MReport("unlink", arg, 0, r.raised,
                                   IF r.raised THEN "failed to unlink scripts" ELSE "",
                                   r.keys, r.steps),
                           r.failed, IF unlinkOk THEN inflight ELSE {})
        /\ UNCHANGED <<env, fs, scripts>>

-----------------------------------------------------------------------------
(* The manifest variant as a state machine                                  *)

\* package.json as installed: the tool's own command only
InitBin == [k \in {SelfName} |-> SelfPath]

\* the script directory may hold a file named like the tool
MInitScripts == {{}, {Name("bunscript", 1)}}

NoEnv == Env("posix", Unset, Unset, {}, SCRIPT_DIR)

Init ==
    /\ env = NoEnv
    /\ fs = [c \in Cells |-> None]
    /\ scripts \in MInitScripts
    /\ bin = InitBin
    /\ last = InitLast

Next ==
    \/ MNew
    \/ MRm
    \/ MLink
    \/ MUnlink
    \/ CmdHelp
    \/ CmdUnknown

Spec == Init /\ [][Next]_vars

-----------------------------------------------------------------------------
(* Properties of the symlink variant (checked under SpecLink)               *)

\* the link target of the script file f in the directory d
TargetCell(d, f) == <<d, Basename(f)>>

\* the source path linkScript is called with for the script file f
SourceOf(cmd, f) == IF cmd = "link" THEN Realpath(env, f) ELSE Dest(SCRIPT_DIR, f)

\* linkScript was called for the script file f in the step
Ensured(f) ==
    /\ last'.cmd \in {"new", "link"}
    /\ last'.dirs # <<>>
    /\ last'.results[f] # "notrun"

\* C1: when the target of linkScript is an existing regular file, the call
\* reports a rejection and the file stays as it is; no command replaces or
\* removes a regular file of a bin directory.
C1_FileTargetRejected ==
    [][/\ \A f \in ScriptFiles :
            (Ensured(f) /\ fs[TargetCell(last'.dirs[1], f)] = File)
                => last'.results[f] = "rejected"
       /\ \A c \in Cells : fs[c] = File => fs'[c] = File]_vars

C1_Witness ==
    /\ last.cmd = "link"
    /\ \E f \in scripts :
          /\ last.results[f] = "rejected"
          /\ fs[TargetCell(last.dirs[1], f)] = File

\* C2: the linkScript of a link command on a free target creates the link,
\* and the linkScript of a link command that follows skips the script: it
\* neither creates a link again nor raises.
C2_Idempotence ==
    [][/\ \A f \in ScriptFiles :
            (Ensured(f) /\ last'.cmd = "link" /\ fs[TargetCell(last'.dirs[1], f)] = None)
                => last'.results[f] = "created"
       /\ \A f \in ScriptFiles :
            (/\ last.cmd = "link" /\ last.results[f] = "created"
             /\ last'.cmd = "link" /\ last'.results[f] # "notrun")
                => /\ last'.results[f] = "skipped"
                   /\ fs'[TargetCell(last'.dirs[1], f)] = fs[TargetCell(last'.dirs[1], f)]]_vars

\* C3: with nothing at the target, linkState answers none, linkScript leaves
\* a link to the source there, and linkState then answers valid.
C3_CreateThenValid ==
    [][\A f \in ScriptFiles :
          (Ensured(f) /\ fs[TargetCell(last'.dirs[1], f)] = None)
              => LET t == TargetCell(last'.dirs[1], f)
                     s == SourceOf(last'.cmd, f)
                 IN  /\ linkState(env, scripts, s, fs[t]) = "none"
                     /\ fs'[t] = Link(s.dir, s.file)
                     /\ linkState(env, scripts', s, fs'[t]) = "valid"]_vars

\* the step ran unlinkscripts over the directories last'.dirs
Scanned(c) ==
    /\ last'.cmd \in {"unlink", "rm"}
    /\ \E i \in DOMAIN last'.dirs : last'.dirs[i] = c[1]

\* C4: unlink and rm leave in place every entry that is not a symbolic link
\* and every link whose destination lies outside the script directory.
C4_ForeignEntriesKept ==
    [][\A c \in Cells :
          (/\ last'.cmd \in {"unlink", "rm"}
           /\ fs[c] # None
           /\ (fs[c].kind # "link" \/ fs[c].dest.dir # SCRIPT_DIR))
              => fs'[c] = fs[c]]_vars

\* an unlink removed a link while a link to a file named like a script, in
\* another directory, sat in a scanned directory
C4_Witness ==
    /\ last.cmd = "unlink"
    /\ last.removed # {}
    /\ \E c \in Cells :
          /\ \E i \in DOMAIN last.dirs : last.dirs[i] = c[1]
          /\ fs[c].kind = "link"
          /\ fs[c].dest.dir = OtherDir
          /\ fs[c].dest.file \in scripts

\* the owned links of the scanned directories that unlink <arg> is to remove
Matching(c, arg) ==
    /\ fs[c].kind = "link"
    /\ fs[c].dest.dir = SCRIPT_DIR
    /\ Basename(fs[c].dest.file) = arg

\* C5: unlink <name> removes every owned link to the script of that name,
\* changes nothing else, and reports as many removals as there were such links.
C5_RemovesExactlyNamed ==
    [][(last'.cmd = "unlink" /\ last'.arg # EmptyName /\ last'.dirs # <<>>)
          => /\ \A c \in Cells :
                  IF Scanned(c) /\ Matching(c, last'.arg)
                  THEN fs'[c] = None
                  ELSE fs'[c] = fs[c]
             /\ Cardinality(last'.removed)
                  = Cardinality({c \in Cells : Scanned(c) /\ Matching(c, last'.arg)})
             /\ ~last'.raised]_vars

\* the candidates of the documentation that exist as directories, in order
DocumentedDirs(e) ==
    SelectSeq(<<e.binDirEnv>> \o JoinHome(e.home), LAMBDA d : d # Unset /\ IsDirectory(e, d))

\* C8: link, unlink and new work on the documented candidates that exist, in
\* the documented order, and links are created in the first of them only.
C8_Discovery ==
    /\ (last.cmd \in {"link", "unlink"}) => last.dirs = DocumentedDirs(env)
    /\ \A f \in ScriptFiles :
          (last.cmd \in {"link", "new"} /\ last.results[f] = "created")
              => /\ DocumentedDirs(env) # <<>>
                 /\ fs[TargetCell(DocumentedDirs(env)[1], f)].kind = "link"

\* C9: a link command that rejects one script still processes every other
\* script, and exits with a non-zero status exactly when it rejected one.
C9_RejectionNonFatal ==
    (last.cmd = "link" /\ last.dirs # <<>>)
        => /\ (\E f \in scripts : last.results[f] = "rejected")
                => \A g \in scripts :
                      EndsWithTs(g) => last.results[g] \in {"created", "skipped", "rejected"}
           /\ (last.exit # 0) <=> (\E f \in scripts : last.results[f] = "rejected")

\* the step ended in one of the precondition failures: the script exists
\* already (new), the script is not found (rm), no bin directory qualifies
\* (new with linking, link)
PreconditionFailure ==
    \/ last'.cmd = "new" /\ last'.msg = "already exists"
    \/ last'.cmd = "rm" /\ last'.msg = "couldn't find script"
    \/ last'.cmd \in {"new", "link"} /\ last'.msg = NoDirsMsg

\* C11: a command that ends in a precondition failure leaves the script
\* directory and the bin directories as they were when it started.
C11_NoPartialMutation ==
    [][PreconditionFailure => (scripts' = scripts /\ fs' = fs)]_vars

-----------------------------------------------------------------------------
(* Properties of the manifest variant (checked under Spec)                  *)

\* C6: the bin map always has the tool's own entry, pointing at its own file.
C6_SelfEntryPinned ==
    /\ SelfName \in DOMAIN bin
    /\ bin[SelfName] = SelfPath

\* link ran with scripts/bunscript.ts present after an unlink of everything
C6_Witness ==
    /\ last.cmd = "link"
    /\ ~last.raised
    /\ Name("bunscript", 1) \in scripts
    /\ DOMAIN bin # {SelfName}

\* C7: every bin entry other than the tool's own names a script file that is
\* in the script directory.
C7_EntriesHaveScripts ==
    \A k \in DOMAIN bin \ {SelfName} : bin[k].file \in scripts

\* the command ended in a runtime failure: an error other than one about its
\* arguments reached the top-level catch
RuntimeFailure == last.raised /\ last.msg # "parseArgs"

\* C10: a command that ended in a runtime failure exits with 1; status 0
\* means success and status 2 a usage error.
C10_ExitCodes ==
    /\ RuntimeFailure => last.exit = 1
    /\ last.exit = 0 => ~RuntimeFailure
    /\ last.exit = 2 => last.msg = "usage"

\* one of the external re-publish steps exited with a non-zero status
RepublishFailed == last'.failed \in {"bun link -f", "bun unlink", "bun link"}

\* C12: when bun link or bun unlink exits non-zero in a link or unlink flow,
\* the command raises the matching failure, the failed step is the last one
\* it ran (rm keeps the script file), and the manifest stays as the flow had
\* written it before that step: unchanged if nothing was written yet.
C12_RepublishFailure ==
    [][RepublishFailed =>
        /\ last'.raised
        /\ last'.msg = IF last'.cmd \in {"new", "link"}
                       THEN "failed to link scripts"
                       ELSE "failed to unlink scripts"
        /\ last'.steps[Len(last'.steps)] = last'.failed
        /\ last'.cmd = "rm" => scripts' = scripts
        /\ IF \E i \in DOMAIN last'.steps : last'.steps[i] = "write"
           THEN IF last'.cmd \in {"new", "link"}
                THEN last'.keys \cup {SelfName} \subseteq DOMAIN bin'
                ELSE DOMAIN bin' = DOMAIN bin \ last'.keys
           ELSE bin' = bin]_vars

\* rm foo failed in its closing bun link: foo's manifest entry is gone and
\* scripts/foo.ts is still there
C12_Witness ==
    /\ last.cmd = "rm"
    /\ last.failed = "bun link"
    /\ last.raised
    /\ last.arg \in last.keys
    /\ last.arg \notin DOMAIN bin
    /\ AddTs(last.arg) \in scripts

\* C13: every write a command issues has completed when the step after it
\* starts: the manifest write before bun link, the script-file write before
\* the editor or the link step.
C13_WritesCompleteBeforeNextStep ==
    last.pending = {}

====
